---- MODULE Spec2Model ----
(***************************************************************************)
(* Credora: the sync orchestrator (services/data_sync.py), the MCP router  *)
(* and the FastMCP tools it calls, and the token manager                   *)
(* (mcp_servers/fastmcp/token_manager.py).                                 *)
(*                                                                         *)
(* Spec      the sync orchestrator over a reliable transport               *)
(* SpecFail  the sync orchestrator with database, transport and platform   *)
(*           failures                                                      *)
(* SpecTM    the token manager, one asyncio task per call, interleaved at  *)
(*           every await                                                   *)
(* SpecTMAll the same with delete_token and list_platforms                 *)
(* SpecExpiry, SpecConcurrent, SpecNormalize, SpecCurrency                 *)
(*           is_expired, two interleaved syncs, the normalizers and the    *)
(*           currency converter (normalization/), each on its own          *)
(***************************************************************************)
EXTENDS Integers, Sequences, FiniteSets, Bags, TLC

VARIABLES
    \* ---- environment of the sync orchestrator
    feed,          \* raw records the platform returns for the window
    plan,          \* outcome of the 1st and of the 2nd fetch of a platform sync
    dbUp,          \* the database answers
    mockAvailable, \* the ad servers' mock data files can be read
    connected,     \* (user, platform) pairs holding a credential
    \* ---- database tables written by the sync orchestrator
    users,         \* external ids with a row in users
    transactions,  \* rows of transactions, in insertion order
    products,      \* keys of products
    campaigns,     \* keys of campaigns
    \* ---- what the last sync call returned, and the sync calls still to come
    last,
    budget,
    \* ---- currency converter (normalization/currency.py)
    rates,         \* CurrencyConverter._rates
    \* ---- token manager (SpecTM)
    lock,          \* holder of TokenManager._lock, or NoTask
    cache,         \* TokenManager._cache
    tokenDb,       \* rows of the tokens table
    userRows,      \* users with a row in the users table (token manager's view)
    now,           \* clock, seconds
    pc,            \* where each task is
    call,          \* the call each task is running
    loaded,        \* token_data local of get_token
    refreshed,     \* refreshed local of get_token
    ret,           \* value the task's call returned
    minted,        \* number of credentials minted by refreshes so far
    inflight,      \* tasks with a refresh HTTP request in flight
    stable,        \* per pair, the credential of the last store_token that
                   \* wrote its row, until the next store, delete or refresh
    dbHandle       \* TokenManager._db: "unset", "set", or "unconfigured" when
                   \* get_database() raises for want of DATABASE_URL

syncData == <<feed, plan, dbUp, mockAvailable, connected, users, transactions,
              products, campaigns, last, rates>>
syncVars == <<syncData, budget>>
tmVars == <<lock, cache, tokenDb, userRows, now, pc, call, loaded, refreshed,
            ret, minted, inflight, stable, dbHandle>>
vars == <<syncVars, tmVars>>

(***************************************************************************)
(* Bounds and finite domains                                               *)
(***************************************************************************)
MaxRecords == 2
MaxCalls == 2
MaxFailCalls == 1

Users == {"u1"}
Platforms == {"shopify", "meta", "google"}
AdPlatforms == {"meta", "google"}
UnsupportedPlatform == "tiktok"

GoodAmount == "49.99"
BadAmount == "abc"
GoodTs == "2024-01-15T10:30:00Z"
BadTs == "not-a-date"

Rec(i, a, t) == [id |-> i, amount |-> a, ts |-> t]

\* raw platform records: well formed, with an unparseable amount, with an
\* unparseable timestamp
RawRecords == { Rec("r1", GoodAmount, GoodTs), Rec("r2", GoodAmount, GoodTs),
                Rec("r1", BadAmount, GoodTs), Rec("r2", GoodAmount, BadTs) }

SeqsUpTo(S, n) == UNION { [1..k -> S] : k \in 0..n }

\* the batches tried under failures: empty, one good record, one malformed
\* record, a malformed record followed by a good one
FailFeeds == { <<>>, << Rec("r1", GoodAmount, GoodTs) >>,
               << Rec("r1", BadAmount, GoodTs) >>,
               << Rec("r2", GoodAmount, BadTs), Rec("r1", GoodAmount, GoodTs) >> }

FetchOutcomes == {"ok", "http_error", "api_down", "mcp_down"}

MockAccounts == <<"act_mock">>
MockCampaigns == << Rec("mock_1", GoodAmount, "2024-01-15") >>
LiveAccounts == <<"act_1">>

(***************************************************************************)
(* Normalization (normalization/normalizer.py, normalization/models.py)    *)
(***************************************************************************)
\* Decimal(str(x)) and float(x) succeed on these strings
NumericStrings == {GoodAmount}
\* datetime.fromisoformat / strptime("%Y-%m-%d") succeed on these strings
TimestampStrings == {GoodTs, "2024-01-15"}

\* the dataclass with the field _insert_transaction reads
FieldsWithOccurredAt ==
    {"id", "platform", "platform_id", "type", "amount", "currency", "timestamp",
     "occurred_at", "amount_usd", "sku_id", "quantity", "cost_per_unit",
     "campaign_id", "customer_id", "metadata"}

\* the fields of the NormalizedTransaction dataclass
NormalizedTransactionFields ==
    {"id", "platform", "platform_id", "type", "amount", "currency", "timestamp",
     "amount_usd", "sku_id", "quantity", "cost_per_unit", "campaign_id",
     "customer_id", "metadata"}

\* normalize raises (InvalidOperation from Decimal, ValueError from the
\* timestamp parse)
NormalizeRaises(platform, raw) ==
    raw.amount \notin NumericStrings \/ raw.ts \notin TimestampStrings

\* the part of the NormalizedTransaction the orchestrator persists
Normalize(platform, raw) ==
    [platform |-> platform,
     platform_id |-> raw.id,
     type |-> IF platform = "shopify" THEN "order" ELSE "ad_spend"]

(***************************************************************************)
(* Decimal values and the currency converter (normalization/currency.py)   *)
(***************************************************************************)
\* a decimal.Decimal: coef * 10^exp
Dec(c, e) == [coef |-> c, exp |-> e]

RECURSIVE Pow10(_)
Pow10(n) == IF n <= 0 THEN 1 ELSE 10 * Pow10(n - 1)

Abs(n) == IF n < 0 THEN -n ELSE n

Min(a, b) == IF a <= b THEN a ELSE b

\* numeric comparison of two Decimals
DecEq(a, b) ==
    LET m == Min(a.exp, b.exp)
    IN  a.coef * Pow10(a.exp - m) = b.coef * Pow10(b.exp - m)

DecNegative(a) == a.coef < 0

\* a * b
DecMul(a, b) == Dec(a.coef * b.coef, a.exp + b.exp)

\* d.quantize(Decimal("0.00...")) with no rounding: digits beyond the places
\* are cut off
QuantizeTruncate(d, round_places) ==
    IF d.exp >= -round_places
    THEN Dec(d.coef * Pow10(d.exp + round_places), -round_places)
    ELSE LET p == Pow10(-round_places - d.exp)
             q == Abs(d.coef) \div p
         IN  Dec(IF d.coef < 0 THEN -q ELSE q, -round_places)

\* d.quantize(Decimal("0.00..."), rounding=ROUND_HALF_UP): ties go away
\* from zero
Quantize(d, round_places) ==
    IF d.exp >= -round_places
    THEN Dec(d.coef * Pow10(d.exp + round_places), -round_places)
    ELSE LET p == Pow10(-round_places - d.exp)
             q == Abs(d.coef) \div p
             r == Abs(d.coef) % p
             h == IF 2 * r >= p THEN q + 1 ELSE q
         IN  Dec(IF d.coef < 0 THEN -h ELSE h, -round_places)

RoundPlaces == 2

DEFAULT_EXCHANGE_RATES ==
    [c \in {"USD", "EUR", "GBP", "CAD", "AUD", "JPY", "INR", "CNY", "BRL", "MXN"}
       |-> CASE c = "USD" -> Dec(10, -1)
             [] c = "EUR" -> Dec(108, -2)
             [] c = "GBP" -> Dec(127, -2)
             [] c = "CAD" -> Dec(74, -2)
             [] c = "AUD" -> Dec(65, -2)
             [] c = "JPY" -> Dec(67, -4)
             [] c = "INR" -> Dec(12, -3)
             [] c = "CNY" -> Dec(14, -2)
             [] c = "BRL" -> Dec(20, -2)
             [] c = "MXN" -> Dec(58, -3)]

\* currency codes handed to the converter
CurrencyCodes == {"USD", "usd", "EUR", "eur", "JPY", "INR", "XYZ"}

\* str.upper() on those codes
Upper(currency) ==
    CASE currency = "usd" -> "USD"
      [] currency = "eur" -> "EUR"
      [] OTHER -> currency

NoDec == Dec(0, 0)

ValueError == [raised |-> TRUE, value |-> NoDec]

Value(d) == [raised |-> FALSE, value |-> d]

\* CurrencyConverter.convert_to_usd(amount, currency) over the rate table rt
ConvertToUsd(rt, amount, currency) ==
    LET currency_upper == Upper(currency)
    IN  IF currency_upper = "USD"
        THEN Value(Quantize(amount, RoundPlaces))
        ELSE IF currency_upper \notin DOMAIN rt
             THEN ValueError
             ELSE Value(Quantize(DecMul(amount, rt[currency_upper]), RoundPlaces))

(***************************************************************************)
(* Database writes of the orchestrator (services/data_sync.py)             *)
(***************************************************************************)
Tables == [users |-> users, transactions |-> transactions,
           products |-> products, campaigns |-> campaigns]

\* the uniqueness constraint of the transactions table
TransactionKey(row) == <<row.user_id, row.platform, row.platform_id>>

Raised(st) == [raised |-> TRUE, st |-> st]
Done(st) == [raised |-> FALSE, st |-> st]

\* a plain INSERT that reads the timestamp field and ignores existing rows
InsertTransactionPlain(st, user_uuid, tx) ==
    Done([st EXCEPT !.transactions =
            Append(@, [user_id |-> user_uuid, platform |-> tx.platform,
                       platform_id |-> tx.platform_id])])

\* _insert_transaction: the argument list reads transaction.occurred_at, a
\* field NormalizedTransaction does not have, so the call raises before the
\* INSERT ... ON CONFLICT DO NOTHING is sent
InsertTransaction(st, user_uuid, tx) ==
    LET row == [user_id |-> user_uuid, platform |-> tx.platform,
                platform_id |-> tx.platform_id]
    IN  IF "occurred_at" \notin NormalizedTransactionFields THEN Raised(st)
        ELSE IF ~dbUp THEN Raised(st)
        ELSE IF \E i \in 1..Len(st.transactions) :
                    TransactionKey(st.transactions[i]) = TransactionKey(row)
             THEN Done(st)
             ELSE Done([st EXCEPT !.transactions = Append(@, row)])

\* _upsert_product: float(price) raises on an unparseable price
UpsertProduct(st, user_uuid, platform, raw) ==
    IF raw.amount \notin NumericStrings \/ ~dbUp THEN Raised(st)
    ELSE Done([st EXCEPT !.products = @ \cup {<<user_uuid, platform, raw.id>>}])

\* _upsert_campaign: float(spend) raises on an unparseable spend
UpsertCampaign(st, user_uuid, platform, raw) ==
    IF raw.amount \notin NumericStrings \/ ~dbUp THEN Raised(st)
    ELSE Done([st EXCEPT !.campaigns = @ \cup {<<user_uuid, platform, raw.id>>}])

(***************************************************************************)
(* Reports                                                                 *)
(***************************************************************************)
NewResult(p) == [platform |-> p, transactions_synced |-> 0,
                 products_synced |-> 0, campaigns_synced |-> 0, errors |-> <<>>]

AddError(res, e) == [res EXCEPT !.errors = Append(@, e)]

\* a run of a platform sync: the report, the tables, and what happened on
\* the way (failures: operations that failed; fetched: the records the
\* transaction-bearing fetch returned; attempts: for each fetch made, in
\* order, the number of requests sent for it)
Run(res, st, failures, fetched, fetchOk) ==
    [res |-> res, st |-> st, failures |-> failures, fetched |-> fetched,
     fetchOk |-> fetchOk, raised |-> FALSE, attempts |-> <<>>]

(***************************************************************************)
(* Fetching through the MCP router (tools/mcp_router.py) from the FastMCP  *)
(* tools (mcp_servers/fastmcp/*_server.py)                                 *)
(***************************************************************************)
\* token_manager.get_token(user_id, platform) in a tool returns a credential
HasCredential(u, p) == <<u, p>> \in connected

ErrDict(msg) == [kind |-> "error", data |-> <<>>, error |-> msg]
ToolRaises == [kind |-> "raises", data |-> <<>>, error |-> ""]
ToolData(d) == [kind |-> "data", data |-> d, error |-> ""]

\* shopify get_orders / get_products
ShopifyTool(u, outcome, data) ==
    IF ~HasCredential(u, "shopify") THEN ErrDict("Not authenticated")
    ELSE IF outcome = "http_error" THEN ErrDict("API error")
    ELSE IF outcome = "api_down" THEN ToolRaises
    ELSE ToolData(data)

\* _load_mock_data
LoadMockData(data) ==
    IF mockAvailable THEN ToolData(data) ELSE ErrDict("Mock data not available")

\* meta/google _fetch_ad_accounts, _fetch_campaigns: mock data when there is
\* no credential and when the live API fails
AdTool(u, p, outcome, live, mock) ==
    IF ~HasCredential(u, p) THEN LoadMockData(mock)
    ELSE IF outcome \in {"http_error", "api_down"} THEN LoadMockData(mock)
    ELSE ToolData(live)

\* _call_mcp_tool followed by result.get(key, []): raises when the server is
\* unreachable or answers with an error status, else the list under the key
\* (an {"error": ...} answer has no such key: the empty list); posts is the
\* number of client.post calls made
RouterFetch(tool, outcome) ==
    IF outcome = "mcp_down" \/ tool.kind = "raises"
    THEN [raised |-> TRUE, data |-> <<>>, failed |-> TRUE, posts |-> 1]
    ELSE [raised |-> FALSE, data |-> tool.data, failed |-> tool.kind = "error",
          posts |-> 1]

(***************************************************************************)
(* Platform syncs (services/data_sync.py)                                  *)
(***************************************************************************)
\* _ensure_user_uuid with the database up: the row is created when missing
EnsureUser(st, u) == [st EXCEPT !.users = @ \cup {u}]

\* the loop over the fetched orders of _sync_shopify; acc is a Run
RECURSIVE ProcessOrders(_, _, _)
ProcessOrders(recs, u, acc) ==
    IF recs = <<>> THEN acc
    ELSE LET raw == Head(recs)
             ins == InsertTransaction(acc.st, u, Normalize("shopify", raw))
             bad == [acc EXCEPT !.res = AddError(@, <<"Order", raw.id>>),
                                !.failures = @ + 1]
         IN  IF NormalizeRaises("shopify", raw)
             THEN ProcessOrders(Tail(recs), u, bad)
             ELSE IF ins.raised
             THEN ProcessOrders(Tail(recs), u, bad)
             ELSE ProcessOrders(Tail(recs), u,
                    [acc EXCEPT !.st = ins.st,
                                !.res.transactions_synced = @ + 1])

\* the loop over the fetched products of _sync_shopify
RECURSIVE ProcessProducts(_, _, _)
ProcessProducts(recs, u, acc) ==
    IF recs = <<>> THEN acc
    ELSE LET raw == Head(recs)
             up == UpsertProduct(acc.st, u, "shopify", raw)
         IN  IF up.raised
             THEN ProcessProducts(Tail(recs), u,
                    [acc EXCEPT !.res = AddError(@, <<"Product", raw.id>>),
                                !.failures = @ + 1])
             ELSE ProcessProducts(Tail(recs), u,
                    [acc EXCEPT !.st = up.st, !.res.products_synced = @ + 1])

\* _sync_shopify with the database up
SyncShopify(u, st) ==
    LET st1 == EnsureUser(st, u)
        start == Run(NewResult("shopify"), st1, 0, <<>>, FALSE)
        orders == RouterFetch(ShopifyTool(u, plan[1], feed), plan[1])
        afterOrders ==
            IF orders.raised
            THEN [start EXCEPT !.res = AddError(@, <<"Failed to fetch orders">>),
                               !.failures = @ + 1,
                               !.attempts = Append(@, orders.posts)]
            ELSE ProcessOrders(orders.data, u,
                    [start EXCEPT !.fetched = orders.data, !.fetchOk = TRUE,
                                  !.failures = IF orders.failed THEN 1 ELSE 0,
                                  !.attempts = Append(@, orders.posts)])
        prods == RouterFetch(ShopifyTool(u, plan[2], feed), plan[2])
    IN  IF prods.raised
        THEN [afterOrders EXCEPT
                !.res = AddError(@, <<"Failed to fetch products">>),
                !.failures = @ + 1,
                !.attempts = Append(@, prods.posts)]
        ELSE ProcessProducts(prods.data, u,
                [afterOrders EXCEPT
                    !.failures = @ + (IF prods.failed THEN 1 ELSE 0),
                    !.attempts = Append(@, prods.posts)])

\* the loop over the campaigns of one account of _sync_meta / _sync_google:
\* the campaign row is written and counted before the spend is normalized
RECURSIVE ProcessCampaigns(_, _, _, _)
ProcessCampaigns(recs, u, p, acc) ==
    IF recs = <<>> THEN acc
    ELSE LET raw == Head(recs)
             up == UpsertCampaign(acc.st, u, p, raw)
             counted == [acc EXCEPT !.st = up.st,
                                    !.res.campaigns_synced = @ + 1]
             ins == InsertTransaction(counted.st, u, Normalize(p, raw))
         IN  IF up.raised
             THEN ProcessCampaigns(Tail(recs), u, p,
                    [acc EXCEPT !.res = AddError(@, <<"Campaign", raw.id>>),
                                !.failures = @ + 1])
             ELSE IF NormalizeRaises(p, raw) \/ ins.raised
             THEN ProcessCampaigns(Tail(recs), u, p,
                    [counted EXCEPT !.res = AddError(@, <<"Campaign", raw.id>>),
                                    !.failures = @ + 1])
             ELSE ProcessCampaigns(Tail(recs), u, p,
                    [counted EXCEPT !.st = ins.st,
                                    !.res.transactions_synced = @ + 1])

\* the loop over the ad accounts of _sync_meta / _sync_google
RECURSIVE ProcessAccounts(_, _, _, _)
ProcessAccounts(accounts, u, p, acc) ==
    IF accounts = <<>> THEN acc
    ELSE LET account_id == Head(accounts)
             camps == RouterFetch(AdTool(u, p, plan[2], feed, MockCampaigns),
                                  plan[2])
         IN  IF camps.raised
             THEN ProcessAccounts(Tail(accounts), u, p,
                    [acc EXCEPT !.res = AddError(@, <<"Account", account_id>>),
                                !.failures = @ + 1, !.fetchOk = FALSE,
                                !.attempts = Append(@, camps.posts)])
             ELSE ProcessAccounts(Tail(accounts), u, p,
                    ProcessCampaigns(camps.data, u, p,
                        [acc EXCEPT !.fetched = @ \o camps.data,
                                    !.failures = @ + (IF camps.failed THEN 1 ELSE 0),
                                    !.attempts = Append(@, camps.posts)]))

\* _sync_meta / _sync_google with the database up
SyncAds(u, p, st) ==
    LET st1 == EnsureUser(st, u)
        start == Run(NewResult(p), st1, 0, <<>>, FALSE)
        accounts == RouterFetch(AdTool(u, p, plan[1], LiveAccounts, MockAccounts),
                                plan[1])
    IN  IF accounts.raised
        THEN [start EXCEPT !.res = AddError(@, <<"Failed to fetch ad accounts">>),
                           !.failures = @ + 1,
                           !.attempts = Append(@, accounts.posts)]
        ELSE ProcessAccounts(accounts.data, u, p,
                [start EXCEPT !.fetchOk = TRUE,
                              !.failures = IF accounts.failed THEN 1 ELSE 0,
                              !.attempts = Append(@, accounts.posts)])

\* sync_platform: dispatch on the platform; whatever a platform sync raises
\* (here: the database is down, so _get_db / _ensure_user_uuid raise) is
\* caught and appended to the initial result
SyncPlatformRun(u, p, st) ==
    IF p \notin Platforms
    THEN Run(AddError(NewResult(p), <<"Unsupported platform", p>>), st, 1, <<>>, FALSE)
    ELSE IF ~dbUp
    THEN Run(AddError(NewResult(p), <<"Exception">>), st, 1, <<>>, FALSE)
    ELSE IF p = "shopify" THEN SyncShopify(u, st)
    ELSE SyncAds(u, p, st)

(***************************************************************************)
(* sync_all_platforms (services/data_sync.py)                              *)
(***************************************************************************)
NewResults == [platforms_synced |-> <<>>, total_transactions |-> 0,
               total_products |-> 0, total_campaigns |-> 0, errors |-> <<>>]

\* the body of the loop of sync_all_platforms with the counts assigned
\* instead of added
AggregateOverwrite(results, platform, platform_result) ==
    [platforms_synced |-> Append(results.platforms_synced, platform),
     total_transactions |-> platform_result.transactions_synced,
     total_products |-> platform_result.products_synced,
     total_campaigns |-> platform_result.campaigns_synced,
     errors |-> results.errors \o platform_result.errors]

\* the body of the loop of sync_all_platforms after sync_platform returned
Aggregate(results, platform, platform_result) ==
    [platforms_synced |-> Append(results.platforms_synced, platform),
     total_transactions |-> results.total_transactions
                              + platform_result.transactions_synced,
     total_products |-> results.total_products + platform_result.products_synced,
     total_campaigns |-> results.total_campaigns
                              + platform_result.campaigns_synced,
     errors |-> results.errors \o platform_result.errors]

\* TokenManager.list_platforms as sync_all_platforms sees it: the rows of the
\* user, nothing when the user has no row, the cached platforms when the
\* database is unavailable (warm: this process has cached the credentials)
ListPlatforms(u, warm) ==
    IF ~dbUp THEN (IF warm THEN {p \in Platforms : <<u, p>> \in connected} ELSE {})
    ELSE IF u \notin users THEN {}
    ELSE {p \in Platforms : <<u, p>> \in connected}

\* the loop of sync_all_platforms over connected_platforms;
\* acc = [results, st, per, failures]
RECURSIVE SyncEach(_, _, _)
SyncEach(platforms, u, acc) ==
    IF platforms = <<>> THEN acc
    ELSE LET p == Head(platforms)
             r == SyncPlatformRun(u, p, acc.st)
         IN  SyncEach(Tail(platforms), u,
                [results |-> Aggregate(acc.results, p, r.res),
                 st |-> r.st,
                 per |-> [q \in DOMAIN acc.per \cup {p} |->
                            IF q = p THEN r.res ELSE acc.per[q]],
                 failures |-> acc.failures + r.failures])

\* the orders in which a set can be listed
Orderings(S) == { f \in [1..Cardinality(S) -> S] :
                    \A i, j \in DOMAIN f : i # j => f[i] # f[j] }

(***************************************************************************)
(* The sync orchestrator as a state machine                                *)
(***************************************************************************)
NoLast == [op |-> "none", user |-> "", platform |-> "", report |-> NewResult(""),
           raised |-> FALSE,
           failures |-> 0, fetched |-> <<>>, fetchOk |-> FALSE, repeat |-> FALSE,
           txBefore |-> <<>>, hadCredential |-> FALSE, results |-> NewResults,
           per |-> <<>>, listed |-> {}, attempts |-> <<>>]

TMInit ==
    /\ lock = "none"
    /\ cache = <<>>
    /\ tokenDb = <<>>
    /\ userRows = {}
    /\ now = 0
    /\ pc = <<>>
    /\ call = <<>>
    /\ loaded = <<>>
    /\ refreshed = <<>>
    /\ ret = <<>>
    /\ minted = 0
    /\ inflight = {}
    /\ stable = <<>>
    /\ dbHandle = "unset"

SyncInitTables ==
    /\ users \in SUBSET Users
    /\ connected \in SUBSET (Users \X Platforms)
    /\ transactions = <<>>
    /\ products = {}
    /\ campaigns = {}
    /\ last = NoLast
    /\ rates = DEFAULT_EXCHANGE_RATES

\* reliable database, transport and platform APIs
Init ==
    /\ feed \in SeqsUpTo(RawRecords, MaxRecords)
    /\ plan = <<"ok", "ok">>
    /\ dbUp = TRUE
    /\ mockAvailable = TRUE
    /\ SyncInitTables
    /\ budget = MaxCalls
    /\ TMInit

\* any combination of failures
InitFail ==
    /\ feed \in FailFeeds
    /\ plan \in [1..2 -> FetchOutcomes]
    /\ dbUp \in BOOLEAN
    /\ mockAvailable \in BOOLEAN
    /\ SyncInitTables
    /\ budget = MaxFailCalls
    /\ TMInit

SetTables(st) ==
    /\ users' = st.users
    /\ transactions' = st.transactions
    /\ products' = st.products
    /\ campaigns' = st.campaigns

\* await sync_platform(user_id, platform)
SyncPlatform(u, p) ==
    LET r == SyncPlatformRun(u, p, Tables)
    IN  /\ budget > 0
        /\ budget' = budget - 1
        /\ SetTables(r.st)
        /\ last' = [NoLast EXCEPT
                      !.op = "platform", !.user = u, !.platform = p,
                      !.report = r.res, !.raised = r.raised,
                      !.failures = r.failures,
                      !.fetched = r.fetched, !.fetchOk = r.fetchOk,
                      !.repeat = /\ last.op = "platform"
                                 /\ last.user = u /\ last.platform = p
                                 /\ last.fetchOk /\ r.fetchOk
                                 /\ last.fetched = r.fetched,
                      !.txBefore = transactions,
                      !.hadCredential = HasCredential(u, p),
                      !.attempts = r.attempts]
        /\ UNCHANGED <<feed, plan, dbUp, mockAvailable, connected, rates, tmVars>>

\* await sync_all_platforms(user_id); the tokens rows come back in any order
SyncAllPlatforms(u) ==
    \E warm \in BOOLEAN :
      \E order \in Orderings(ListPlatforms(u, warm)) :
        LET r == SyncEach(order, u,
                    [results |-> NewResults, st |-> Tables, per |-> <<>>,
                     failures |-> IF dbUp THEN 0 ELSE 1])
        IN  /\ budget > 0
            /\ budget' = budget - 1
            /\ SetTables(r.st)
            /\ last' = [NoLast EXCEPT
                          !.op = "all", !.user = u, !.results = r.results,
                          !.failures = r.failures, !.per = r.per,
                          !.listed = ListPlatforms(u, warm),
                          !.txBefore = transactions]
            /\ UNCHANGED <<feed, plan, dbUp, mockAvailable, connected, rates, tmVars>>

Next ==
    \/ \E u \in Users, p \in Platforms \cup {UnsupportedPlatform} : SyncPlatform(u, p)
    \/ \E u \in Users : SyncAllPlatforms(u)

Spec == Init /\ [][Next]_vars

SpecFail == InitFail /\ [][Next]_vars

(***************************************************************************)
(* Properties of the sync orchestrator                                     *)
(***************************************************************************)
Range(s) == { s[i] : i \in DOMAIN s }

\* the number of entries of s that are in S
CountIn(s, S) == Cardinality({ i \in DOMAIN s : s[i] \in S })

WellFormed == { raw \in RawRecords \cup Range(MockCampaigns) :
                  ~NormalizeRaises("shopify", raw) }

\* error entries about one fetched order or campaign
RecordErrors == { <<k, i>> : k \in {"Order", "Campaign"},
                             i \in {"r1", "r2", "mock_1"} }

ZeroCounts(res) == /\ res.transactions_synced = 0
                   /\ res.products_synced = 0
                   /\ res.campaigns_synced = 0

C3_PartialFailureIsolation ==
    (last.op = "platform" /\ last.fetchOk /\ last.hadCredential) =>
        LET n == Len(last.fetched)
            k == n - CountIn(last.fetched, WellFormed)
        IN  /\ last.report.transactions_synced = n - k
            /\ CountIn(last.report.errors, RecordErrors) = k

\* C4: a sync call never lets an exception out, and a call in which some
\* operation failed and nothing was synced reports a non-empty errors list.
C4_AlwaysReportsFailure ==
    /\ ~last.raised
    /\ (last.op = "platform" /\ last.failures > 0 /\ ZeroCounts(last.report))
          => last.report.errors # <<>>
    /\ (last.op = "all" /\ last.failures > 0
          /\ last.results.total_transactions = 0
          /\ last.results.total_products = 0
          /\ last.results.total_campaigns = 0)
          => last.results.errors # <<>>

RECURSIVE SumOf(_, _, _)
SumOf(S, per, field) ==
    IF S = {} THEN 0
    ELSE LET p == CHOOSE q \in S : TRUE
         IN  per[p][field] + SumOf(S \ {p}, per, field)

SeqToBag(s) == [e \in Range(s) |-> Cardinality({ i \in DOMAIN s : s[i] = e })]

RECURSIVE ErrorBag(_, _)
ErrorBag(S, per) ==
    IF S = {} THEN EmptyBag
    ELSE LET p == CHOOSE q \in S : TRUE
         IN  SeqToBag(per[p].errors) (+) ErrorBag(S \ {p}, per)

\* C5: sync_all_platforms runs sync_platform for every listed platform, and
\* its totals are the sums, its errors the multiset union, of the
\* per-platform reports, whatever the order of the platforms.
C5_AggregateIsSum ==
    last.op = "all" =>
        /\ DOMAIN last.per = last.listed
        /\ Range(last.results.platforms_synced) = last.listed
        /\ Len(last.results.platforms_synced) = Cardinality(last.listed)
        /\ last.results.total_transactions
             = SumOf(last.listed, last.per, "transactions_synced")
        /\ last.results.total_products
             = SumOf(last.listed, last.per, "products_synced")
        /\ last.results.total_campaigns
             = SumOf(last.listed, last.per, "campaigns_synced")
        /\ SeqToBag(last.results.errors) = ErrorBag(last.listed, last.per)

\* a platform that failed completely was synced before one that synced rows
C5_Witness ==
    /\ last.op = "all"
    /\ \E i, j \in DOMAIN last.results.platforms_synced :
         LET a == last.per[last.results.platforms_synced[i]]
             b == last.per[last.results.platforms_synced[j]]
         IN  /\ i < j
             /\ ZeroCounts(a) /\ a.errors # <<>>
             /\ ~ZeroCounts(b)

\* C6: a sync_platform call for a platform without a credential fetches
\* nothing, writes no transaction and reports an authentication error.
C6_NoCredentialIsAuthError ==
    (last.op = "platform" /\ last.platform \in Platforms /\ ~last.hadCredential) =>
        /\ last.fetched = <<>>
        /\ transactions = last.txBefore
        /\ \E i \in DOMAIN last.report.errors :
              last.report.errors[i] \in {<<"Not authenticated">>,
                                         <<"AuthenticationError">>}

(***************************************************************************)
(* Token manager (mcp_servers/fastmcp/token_manager.py)                    *)
(***************************************************************************)
MaxIssued == 2
MaxTMCalls == 3
MaxAdminCalls == 2

Tasks == {"t1", "t2"}
TMUsers == {"u1"}
TMKeys == {<<"u1", "meta">>, <<"u1", "shopify">>}

\* the instants the clock shows, in seconds
ClockTimes == {0, 3400}

DefaultBufferSeconds == 300
DefaultExpiresIn == 3600

NoTok == [id |-> 0, rt |-> FALSE, exp |-> <<>>, meta |-> FALSE]

\* the credentials callers store: with an expiry, a refresh token and
\* metadata; without expiry and without refresh token
StoredShapes == { [rt |-> TRUE, life |-> <<3600>>, meta |-> TRUE],
                  [rt |-> FALSE, life |-> <<>>, meta |-> FALSE] }

NewTok(shape) ==
    [id |-> minted + 1, rt |-> shape.rt, meta |-> shape.meta,
     exp |-> IF shape.life = <<>> THEN <<>> ELSE <<now + shape.life[1]>>]

\* an expiry test that forgets the buffer
IsExpiredNoBuffer(tok, buffer_seconds) ==
    IF tok.exp = <<>> THEN FALSE ELSE now >= tok.exp[1]

\* TokenData.is_expired
IsExpired(tok, buffer_seconds) ==
    IF tok.exp = <<>> THEN FALSE ELSE now >= tok.exp[1] - buffer_seconds

\* the columns store_token writes: metadata is not among them
Row(tok) == [id |-> tok.id, rt |-> tok.rt, exp |-> tok.exp]

\* TokenData(...) built from a row in get_token: metadata keeps its default
FromRow(row) == [id |-> row.id, rt |-> row.rt, exp |-> row.exp, meta |-> FALSE]

\* _refresh_token on a 200 answer
RefreshedTok(token_data) ==
    [id |-> minted + 1, rt |-> token_data.rt, meta |-> token_data.meta,
     exp |-> <<now + DefaultExpiresIn>>]

Cached(k) == k \in DOMAIN cache
Stored(k) == k \in DOMAIN tokenDb

Put(f, k, v) == [x \in DOMAIN f \cup {k} |-> IF x = k THEN v ELSE f[x]]
\* removes every entry of the user of the pair
DropUser(f, k) == [x \in {y \in DOMAIN f : y[1] # k[1]} |-> f[x]]

Drop(f, k) == [x \in DOMAIN f \ {k} |-> f[x]]

\* self._cache.get(user_id, {}).get(platform)
CacheGet(k) == IF Cached(k) THEN [kind |-> "token", tok |-> cache[k]]
               ELSE [kind |-> "none", tok |-> NoTok]

NoCall == [op |-> "none", key |-> <<"", "">>, tok |-> NoTok, auto |-> FALSE,
           refresh |-> "none"]

\* what a call returned (kind "token", "none", "bool" or "list"), with the
\* stored and the cached credential of its key at that moment
Returned(kind, tok, flag, listed, k, db2, cache2) ==
    [kind |-> kind, tok |-> tok, flag |-> flag, platforms |-> listed,
     db |-> IF k \in DOMAIN db2 THEN <<db2[k]>> ELSE <<>>,
     cached |-> IF k \in DOMAIN cache2 THEN <<cache2[k]>> ELSE <<>>]

NoRet == [kind |-> "pending", tok |-> NoTok, flag |-> FALSE, platforms |-> {},
          db |-> <<>>, cached |-> <<>>]

\* the manager after construction, no call made yet
InitTMState ==
    /\ lock = "none"
    /\ cache = <<>>
    /\ tokenDb = <<>>
    /\ userRows \in SUBSET TMUsers
    /\ now = 0
    /\ pc = [t \in Tasks |-> "idle"]
    /\ call = [t \in Tasks |-> NoCall]
    /\ loaded = [t \in Tasks |-> NoTok]
    /\ refreshed = [t \in Tasks |-> NoTok]
    /\ ret = [t \in Tasks |-> NoRet]
    /\ minted = 0
    /\ inflight = {}
    /\ stable = [k \in TMKeys |-> NoTok]
    /\ dbHandle \in {"unset", "unconfigured"}
    /\ feed = <<>>
    /\ plan = <<"ok", "ok">>
    /\ dbUp = TRUE
    /\ mockAvailable = TRUE
    /\ users = {}
    /\ connected = {}
    /\ transactions = <<>>
    /\ products = {}
    /\ campaigns = {}
    /\ last = NoLast
    /\ rates = DEFAULT_EXCHANGE_RATES

InitTM == InitTMState /\ budget = MaxTMCalls

InitTMAll == InitTMState /\ budget = MaxAdminCalls

\* async with self._lock: the lock is free
CanAcquireAlways(t) == TRUE

CanAcquire(t) == lock = "none"

\* the value get_token returns when the refresh gave nothing or raised:
\* "absent" instead of the loaded credential
RefreshFailedAbsent(token_data) == [kind |-> "none", tok |-> NoTok]

\* the value get_token returns when the refresh gave nothing or raised
RefreshFailedResult(token_data) == [kind |-> "token", tok |-> token_data]

\* a call returns r and leaves its async with block
ReturnWith(t, kind, tok, flag, listed, db2, cache2) ==
    /\ pc' = [pc EXCEPT ![t] = "done"]
    /\ ret' = [ret EXCEPT ![t] =
                 Returned(kind, tok, flag, listed, call[t].key, db2, cache2)]
    /\ lock' = "none"

Return(t, r, db2, cache2) == ReturnWith(t, r.kind, r.tok, FALSE, {}, db2, cache2)

\* what await self._get_db() and the user lookup behind it can give: without
\* DATABASE_URL get_database() raises on every call; the first connect() may
\* fail; once self._db is set it is returned as it is
GetDbOutcomes ==
    IF dbHandle = "unconfigured" THEN {"nodb"}
    ELSE IF dbHandle = "unset" THEN {"ok", "nodb", "lookup_error"}
    ELSE {"ok", "lookup_error"}

\* self._db after _get_db
HandleAfterGetDb == IF dbHandle = "unset" THEN "set" ELSE dbHandle

Begin(t, c, first) ==
    /\ pc[t] \in {"idle", "done"}
    /\ call' = [call EXCEPT ![t] = c]
    /\ pc' = [pc EXCEPT ![t] = first]
    /\ ret' = [ret EXCEPT ![t] = NoRet]
    /\ loaded' = [loaded EXCEPT ![t] = NoTok]
    /\ refreshed' = [refreshed EXCEPT ![t] = NoTok]
    /\ budget > 0
    /\ budget' = budget - 1
    /\ UNCHANGED <<lock, cache, tokenDb, userRows, now, inflight, dbHandle, syncData>>

\* a task calls get_token(user_id, platform, auto_refresh)
CallGetToken(t) ==
    \E k \in TMKeys, a \in BOOLEAN :
        /\ Begin(t, [NoCall EXCEPT !.op = "get_token", !.key = k, !.auto = a],
                 "gt_acquire")
        /\ UNCHANGED <<minted, stable>>

\* a task calls store_token(user_id, platform, token_data) with a new credential
CallStoreToken(t) ==
    \E k \in TMKeys, shape \in StoredShapes :
        /\ minted < MaxIssued
        /\ minted' = minted + 1
        /\ Begin(t, [NoCall EXCEPT !.op = "store_token", !.key = k,
                                   !.tok = NewTok(shape)], "st_acquire")
        /\ stable' = [stable EXCEPT ![k] = NoTok]

\* a task calls delete_token(user_id, platform)
CallDeleteToken(t) ==
    \E k \in TMKeys :
        /\ Begin(t, [NoCall EXCEPT !.op = "delete_token", !.key = k], "dl_acquire")
        /\ stable' = [stable EXCEPT ![k] = NoTok]
        /\ UNCHANGED minted

\* a task calls list_platforms(user_id)
CallListPlatforms(t) ==
    \E u \in TMUsers :
        /\ Begin(t, [NoCall EXCEPT !.op = "list_platforms", !.key = <<u, "">>],
                 "lp_acquire")
        /\ UNCHANGED <<minted, stable>>

\* get_token enters async with self._lock and looks into the cache
GetAcquire(t) ==
    LET k == call[t].key IN
    /\ pc[t] = "gt_acquire"
    /\ CanAcquire(t)
    /\ IF Cached(k) /\ ~IsExpired(cache[k], DefaultBufferSeconds)
       THEN Return(t, [kind |-> "token", tok |-> cache[k]], tokenDb, cache)
       ELSE /\ lock' = t
            /\ pc' = [pc EXCEPT ![t] = "gt_db"]
            /\ UNCHANGED ret
    /\ UNCHANGED <<cache, tokenDb, userRows, now, call, loaded, refreshed,
                   minted, inflight, dbHandle, stable, syncVars>>

\* get_token: await self._get_db(), await self._get_user_uuid(user_id)
GetDb(t) ==
    LET k == call[t].key IN
    /\ pc[t] = "gt_db"
    /\ \E o \in GetDbOutcomes :
         IF o = "nodb" THEN Return(t, CacheGet(k), tokenDb, cache)
         ELSE IF o = "lookup_error" \/ k[1] \notin userRows
         THEN Return(t, [kind |-> "none", tok |-> NoTok], tokenDb, cache)
         ELSE /\ pc' = [pc EXCEPT ![t] = "gt_fetchrow"]
              /\ UNCHANGED <<ret, lock>>
    /\ dbHandle' = HandleAfterGetDb
    /\ UNCHANGED <<cache, tokenDb, userRows, now, call, loaded, refreshed,
                   minted, inflight, stable, syncVars>>

\* get_token: await db.fetchrow(...), the cache is repopulated, and the
\* refresh decision
GetFetchRow(t) ==
    LET k == call[t].key
        token_data == FromRow(tokenDb[k])
        cache2 == Put(cache, k, token_data)
    IN
    /\ pc[t] = "gt_fetchrow"
    /\ \E o \in {"ok", "error"}, configured \in BOOLEAN :
         IF o = "error"
         THEN /\ Return(t, CacheGet(k), tokenDb, cache)
              /\ UNCHANGED <<cache, loaded, inflight, call>>
         ELSE IF ~Stored(k)
         THEN /\ Return(t, [kind |-> "none", tok |-> NoTok], tokenDb, cache)
              /\ UNCHANGED <<cache, loaded, inflight, call>>
         ELSE /\ cache' = cache2
              /\ loaded' = [loaded EXCEPT ![t] = token_data]
              /\ IF call[t].auto /\ IsExpired(token_data, DefaultBufferSeconds)
                    /\ token_data.rt
                 THEN IF k[2] = "shopify" \/ ~configured
                      THEN /\ Return(t, RefreshFailedResult(token_data),
                                     tokenDb, cache2)
                           /\ call' = [call EXCEPT ![t].refresh = "failed"]
                           /\ UNCHANGED inflight
                      ELSE /\ pc' = [pc EXCEPT ![t] = "gt_refresh"]
                           /\ inflight' = inflight \cup {t}
                           /\ UNCHANGED <<ret, lock, call>>
                 ELSE /\ Return(t, [kind |-> "token", tok |-> token_data],
                                tokenDb, cache2)
                      /\ UNCHANGED <<inflight, call>>
    /\ UNCHANGED <<tokenDb, userRows, now, refreshed, minted, dbHandle, stable, syncVars>>

\* get_token: the refresh HTTP request of _refresh_token answers
GetRefresh(t) ==
    /\ pc[t] = "gt_refresh"
    /\ inflight' = inflight \ {t}
    /\ \E o \in {"ok", "not_200", "raises"} :
         IF o = "ok"
         THEN /\ minted < MaxIssued
              /\ minted' = minted + 1
              /\ refreshed' = [refreshed EXCEPT ![t] = RefreshedTok(loaded[t])]
              /\ call' = [call EXCEPT ![t].refresh = "ok"]
              /\ stable' = [stable EXCEPT ![call[t].key] = NoTok]
              \* await self.store_token(user_id, platform, refreshed)
              /\ pc' = [pc EXCEPT ![t] = "st_acquire"]
              /\ UNCHANGED <<ret, lock>>
         ELSE /\ Return(t, RefreshFailedResult(loaded[t]), tokenDb, cache)
              /\ call' = [call EXCEPT ![t].refresh = "failed"]
              /\ UNCHANGED <<minted, refreshed, stable>>
    /\ UNCHANGED <<cache, tokenDb, userRows, now, loaded, dbHandle, syncVars>>

\* the credential store_token was called with
StoreArg(t) == IF call[t].op = "get_token" THEN refreshed[t] ELSE call[t].tok

\* store_token returns; inside get_token the refreshed credential is returned
StoreReturn(t, db2, cache2) ==
    IF call[t].op = "get_token"
    THEN Return(t, [kind |-> "token", tok |-> refreshed[t]], db2, cache2)
    ELSE Return(t, [kind |-> "none", tok |-> NoTok], db2, cache2)

\* store_token enters async with self._lock and writes the cache
StoreAcquire(t) ==
    /\ pc[t] = "st_acquire"
    /\ CanAcquire(t)
    /\ lock' = t
    /\ cache' = Put(cache, call[t].key, StoreArg(t))
    /\ pc' = [pc EXCEPT ![t] = "st_db"]
    /\ UNCHANGED <<tokenDb, userRows, now, call, loaded, refreshed, ret, minted,
                   inflight, dbHandle, stable, syncVars>>

\* store_token: await self._get_db(), await self._get_user_uuid(user_id)
StoreDb(t) ==
    /\ pc[t] = "st_db"
    /\ \E o \in GetDbOutcomes :
         IF o # "ok" \/ call[t].key[1] \notin userRows
         THEN StoreReturn(t, tokenDb, cache)
         ELSE /\ pc' = [pc EXCEPT ![t] = "st_execute"]
              /\ UNCHANGED <<ret, lock>>
    /\ dbHandle' = HandleAfterGetDb
    /\ UNCHANGED <<cache, tokenDb, userRows, now, call, loaded, refreshed,
                   minted, inflight, stable, syncVars>>

\* store_token: await db.execute(INSERT ... ON CONFLICT DO UPDATE)
StoreExecute(t) ==
    LET db2 == Put(tokenDb, call[t].key, Row(StoreArg(t))) IN
    /\ pc[t] = "st_execute"
    /\ \E o \in {"ok", "error"} :
         IF o = "ok"
         THEN /\ tokenDb' = db2
              /\ stable' = [stable EXCEPT ![call[t].key] =
                               IF call[t].op = "store_token" THEN call[t].tok
                               ELSE NoTok]
              /\ StoreReturn(t, db2, cache)
         ELSE /\ UNCHANGED <<tokenDb, stable>>
              /\ StoreReturn(t, tokenDb, cache)
    /\ UNCHANGED <<cache, userRows, now, call, loaded, refreshed, minted,
                   inflight, dbHandle, syncVars>>

\* delete_token enters async with self._lock and drops the cache entry
DeleteAcquire(t) ==
    /\ pc[t] = "dl_acquire"
    /\ CanAcquire(t)
    /\ lock' = t
    /\ cache' = Drop(cache, call[t].key)
    /\ pc' = [pc EXCEPT ![t] = "dl_db"]
    /\ UNCHANGED <<tokenDb, userRows, now, call, loaded, refreshed, ret, minted,
                   inflight, dbHandle, stable, syncVars>>

\* delete_token: await self._get_db(), await self._get_user_uuid(user_id)
DeleteDb(t) ==
    /\ pc[t] = "dl_db"
    /\ \E o \in GetDbOutcomes :
         IF o = "nodb"
         THEN ReturnWith(t, "bool", NoTok, TRUE, {}, tokenDb, cache)
         ELSE IF o = "lookup_error" \/ call[t].key[1] \notin userRows
         THEN ReturnWith(t, "bool", NoTok, FALSE, {}, tokenDb, cache)
         ELSE /\ pc' = [pc EXCEPT ![t] = "dl_execute"]
              /\ UNCHANGED <<ret, lock>>
    /\ dbHandle' = HandleAfterGetDb
    /\ UNCHANGED <<cache, tokenDb, userRows, now, call, loaded, refreshed,
                   minted, inflight, stable, syncVars>>

\* delete_token: await db.execute(DELETE FROM tokens ...)
DeleteExecute(t) ==
    LET db2 == Drop(tokenDb, call[t].key) IN
    /\ pc[t] = "dl_execute"
    /\ \E o \in {"ok", "error"} :
         IF o = "ok"
         THEN /\ tokenDb' = db2
              /\ ReturnWith(t, "bool", NoTok, TRUE, {}, db2, cache)
         ELSE /\ UNCHANGED tokenDb
              /\ ReturnWith(t, "bool", NoTok, FALSE, {}, tokenDb, cache)
    /\ UNCHANGED <<cache, userRows, now, call, loaded, refreshed, minted,
                   inflight, dbHandle, stable, syncVars>>

\* the platforms a map has an entry of the user for
PlatformsOf(f, u) == {k[2] : k \in {x \in DOMAIN f : x[1] = u}}

\* list_platforms enters async with self._lock
ListAcquire(t) ==
    /\ pc[t] = "lp_acquire"
    /\ CanAcquire(t)
    /\ lock' = t
    /\ pc' = [pc EXCEPT ![t] = "lp_db"]
    /\ UNCHANGED <<cache, tokenDb, userRows, now, call, loaded, refreshed, ret,
                   minted, inflight, dbHandle, stable, syncVars>>

\* list_platforms: await self._get_db(), await self._get_user_uuid(user_id)
ListDb(t) ==
    LET u == call[t].key[1] IN
    /\ pc[t] = "lp_db"
    /\ \E o \in GetDbOutcomes :
         IF o = "nodb"
         THEN ReturnWith(t, "list", NoTok, FALSE, PlatformsOf(cache, u),
                         tokenDb, cache)
         ELSE IF o = "lookup_error" \/ u \notin userRows
         THEN ReturnWith(t, "list", NoTok, FALSE, {}, tokenDb, cache)
         ELSE /\ pc' = [pc EXCEPT ![t] = "lp_fetch"]
              /\ UNCHANGED <<ret, lock>>
    /\ dbHandle' = HandleAfterGetDb
    /\ UNCHANGED <<cache, tokenDb, userRows, now, call, loaded, refreshed,
                   minted, inflight, stable, syncVars>>

\* list_platforms: await db.fetch(SELECT platform FROM tokens ...)
ListFetch(t) ==
    LET u == call[t].key[1] IN
    /\ pc[t] = "lp_fetch"
    /\ \E o \in {"ok", "error"} :
         ReturnWith(t, "list", NoTok, FALSE,
                    PlatformsOf(IF o = "ok" THEN tokenDb ELSE cache, u),
                    tokenDb, cache)
    /\ UNCHANGED <<cache, tokenDb, userRows, now, call, loaded, refreshed,
                   minted, inflight, dbHandle, stable, syncVars>>

\* datetime.now(timezone.utc) advances
Tick ==
    /\ \E n \in ClockTimes :
         /\ n > now
         /\ \A m \in ClockTimes : m > now => n <= m
         /\ now' = n
    /\ UNCHANGED <<lock, cache, tokenDb, userRows, pc, call, loaded, refreshed,
                   ret, minted, inflight, dbHandle, stable, syncVars>>

\* one step of a task inside get_token or store_token
TaskStep(t) ==
    \/ GetAcquire(t) \/ GetDb(t) \/ GetFetchRow(t) \/ GetRefresh(t)
    \/ StoreAcquire(t) \/ StoreDb(t) \/ StoreExecute(t)

\* one step of a task inside delete_token or list_platforms
AdminStep(t) ==
    \/ DeleteAcquire(t) \/ DeleteDb(t) \/ DeleteExecute(t)
    \/ ListAcquire(t) \/ ListDb(t) \/ ListFetch(t)

\* tasks storing and reading credentials concurrently
NextTM ==
    \/ \E t \in Tasks : CallGetToken(t) \/ CallStoreToken(t) \/ TaskStep(t)
    \/ Tick

SpecTM == InitTM /\ [][NextTM]_vars

\* the event loop runs every task that can take a step
FairSpecTM == SpecTM /\ \A t \in Tasks : WF_vars(TaskStep(t))

\* tasks using the whole interface of the manager
NextTMAll ==
    \/ NextTM
    \/ \E t \in Tasks : CallDeleteToken(t) \/ CallListPlatforms(t) \/ AdminStep(t)

SpecTMAll == InitTMAll /\ [][NextTMAll]_vars

\* the same, with the event loop running every task that can take a step
FairSpecTMAll ==
    SpecTMAll /\ \A t \in Tasks : WF_vars(TaskStep(t) \/ AdminStep(t))

\* ------------------------------------------------------------------------
\* Properties of the token manager
\* ------------------------------------------------------------------------

\* the task's get_token went through a refresh attempt that succeeded
RefreshSucceeded(t) == call[t].op = "get_token" /\ call[t].refresh = "ok"

\* the task's get_token went through a refresh attempt that failed
RefreshFailed(t) == call[t].op = "get_token" /\ call[t].refresh = "failed"

\* C7: a get_token whose platform refresh succeeded returns the refreshed
\* credential, and at that moment the tokens row and the cache entry of the
\* key are the refreshed credential
C7_SuccessfulRefreshReturns ==
    \A t \in Tasks :
        RefreshSucceeded(t) ~>
            /\ pc[t] = "done"
            /\ ret[t].kind = "token"
            /\ ret[t].tok = refreshed[t]
            /\ ret[t].db = <<Row(refreshed[t])>>
            /\ ret[t].cached = <<refreshed[t]>>

\* C8: a get_token whose refresh attempt failed returns the expired
\* credential it loaded from the tokens table, not "absent", and the row of
\* the key is still that credential when it returns
C8_FailedRefreshReturnsStale ==
    \A t \in Tasks :
        (pc[t] = "done" /\ RefreshFailed(t)) =>
            /\ ret[t].kind = "token"
            /\ ret[t].tok = loaded[t]
            /\ IsExpired(ret[t].tok, DefaultBufferSeconds)
            /\ ret[t].db = <<Row(loaded[t])>>

\* a get_token on a platform with a refresh endpoint returned after the
\* refresh request failed
C8_Witness ==
    \E t \in Tasks :
        /\ pc[t] = "done"
        /\ RefreshFailed(t)
        /\ call[t].key[2] = "meta"
        /\ ret[t].tok.id > 0

\* C9: at most one refresh request per key is in flight, and while a task is
\* refreshing a credential, or holds a refreshed one it has not written yet,
\* the row of the key is still the credential it loaded: nothing it would
\* overwrite is newer, and nothing older is written over a refreshed one
C9_SingleRefreshNoLostUpdate ==
    /\ \A k \in TMKeys :
         Cardinality({t \in inflight : call[t].key = k}) <= 1
    /\ \A t \in Tasks :
         (call[t].op = "get_token" /\ pc[t] \in {"gt_refresh", "st_acquire",
                                                 "st_db", "st_execute"}) =>
             /\ Stored(call[t].key)
             /\ tokenDb[call[t].key] = Row(loaded[t])
    /\ \A k \in TMKeys, t \in Tasks :
         (pc[t] = "done" /\ RefreshSucceeded(t) /\ call[t].key = k
            /\ Stored(k)) => tokenDb[k].id >= refreshed[t].id

\* one task has its refresh request in flight while the other has called
\* get_token with auto_refresh for the same key and waits for the lock
C9_Witness ==
    \E t1 \in Tasks, t2 \in Tasks :
        /\ t1 # t2
        /\ t1 \in inflight
        /\ pc[t2] = "gt_acquire"
        /\ call[t2].key = call[t1].key
        /\ call[t2].auto

\* the places where a task is suspended in a database call or in the
\* refresh HTTP call
AwaitPoints == {"gt_db", "gt_fetchrow", "gt_refresh", "st_db", "st_execute",
                "dl_db", "dl_execute", "lp_db", "lp_fetch"}

\* C10: no task holds the lock while it is suspended in a database read or
\* write or in the refresh HTTP call
C10_LockNotHeldAcrossAwait ==
    \A t \in Tasks : pc[t] \in AwaitPoints => lock # t

\* the places where a task waits to enter the async with self._lock block of
\* store_token, get_token or delete_token
AcquirePoints == {"gt_acquire", "st_acquire", "dl_acquire"}

KeyedOps == {"store_token", "get_token", "delete_token"}

\* C11: an operation in progress on one (user, platform) pair never makes an
\* operation on a different pair wait: a task that waits for the lock while
\* another task is inside its critical section works on the same pair
C11_PerKeyExclusion ==
    \A t1 \in Tasks, t2 \in Tasks :
        (/\ t1 # t2
         /\ lock = t1 /\ call[t1].op \in KeyedOps
         /\ pc[t2] \in AcquirePoints /\ call[t2].op \in KeyedOps)
        => call[t2].key = call[t1].key

\* C12: when store_token returns, the tokens table holds the credential it
\* was called with for the pair, and so does the cache
C12_StoreIsDurable ==
    \A t \in Tasks :
        (pc[t] = "done" /\ call[t].op = "store_token") =>
            /\ ret[t].db # <<>>
            /\ ret[t].db[1].id = call[t].tok.id
            /\ ret[t].cached = <<call[t].tok>>

\* the access tokens handed to store_token or produced by a refresh so far,
\* as plaintext
PlaintextTokens == 1..minted

\* C13: no access token column of the tokens table holds the plaintext of a
\* token that was passed to store_token or produced by a refresh
C13_NoPlaintextPersisted ==
    \A k \in DOMAIN tokenDb : tokenDb[k].id \notin PlaintextTokens

\* C14: while the last store_token for a pair wrote its row and no store,
\* delete or refresh for the pair came after it, a credential get_token
\* returns for the pair equals the stored one in every field, metadata
\* included
C14_RoundTrip ==
    [][\A t \in Tasks :
         (/\ call[t].op = "get_token"
          /\ pc[t] # "done" /\ pc'[t] = "done"
          /\ ret'[t].kind = "token"
          /\ stable[call[t].key] # NoTok)
         => ret'[t].tok = stable[call[t].key]]_vars

\* C15: when delete_token returns, neither the tokens table nor the cache
\* holds a credential for the pair (so a get_token that follows finds none,
\* and a delete of an absent credential leaves both as they were)
C15_DeleteRemoves ==
    \A t \in Tasks :
        (pc[t] = "done" /\ call[t].op = "delete_token") =>
            /\ ret[t].db = <<>>
            /\ ret[t].cached = <<>>

\* get_token(user_id, platform, auto_refresh=False) returns a credential,
\* its database calls succeeding: an unexpired cache entry, or else the row
\* of the pair (the cache entry when there is no database)
GetTokenFinds(k) ==
    \/ Cached(k) /\ ~IsExpired(cache[k], DefaultBufferSeconds)
    \/ IF dbHandle = "unconfigured" THEN Cached(k)
       ELSE k[1] \in userRows /\ Stored(k)

\* C16: the platforms list_platforms returns for a user are exactly those
\* for which get_token without refresh returns a credential
C16_ListMatchesGet ==
    [][\A t \in Tasks :
         (call[t].op = "list_platforms" /\ pc[t] # "done" /\ pc'[t] = "done")
         => ret'[t].platforms =
               { k[2] : k \in { x \in TMKeys : /\ x[1] = call[t].key[1]
                                               /\ GetTokenFinds(x) } }]_vars

\* the entry of a pair in the cache or in the tokens table, if any
Entry(f, k) == IF k \in DOMAIN f THEN <<f[k]>> ELSE <<>>

C18_NeverSilentlyLost ==
    [][/\ \A k \in TMKeys :
            (Stored(k) /\ ~Stored(k)')
            => \E t \in Tasks : /\ call[t].op = "delete_token"
                                /\ call[t].key = k
                                /\ pc'[t] # pc[t]
       /\ \A t \in Tasks :
            (/\ call[t].op = "get_token"
             /\ pc[t] # "done" /\ pc'[t] = "done"
             /\ Stored(call[t].key))
            => ret'[t].kind # "none"]_vars

\* the points of get_token before the row has been asked for
BeforeRowRead == {"gt_acquire", "gt_db"}

\* the points of get_token on the path taken when the cache did not answer
SlowPath == {"gt_db", "gt_fetchrow"}

\* C26: get_token returns a cached credential without reading the row only
\* if that credential is not expired under the buffer; and when the cache
\* did not answer and the pair has a row, the cache entry of the pair is
\* the credential loaded from the row by the time get_token decides about
\* a refresh or returns
C26_CacheServingRule ==
    [][\A t \in Tasks :
         call[t].op = "get_token" =>
           /\ (pc[t] \in BeforeRowRead /\ pc'[t] = "done"
                 /\ ret'[t].kind = "token")
                => ~IsExpired(ret'[t].tok, DefaultBufferSeconds)
           /\ (pc[t] \in SlowPath /\ pc'[t] \in {"done", "gt_refresh"}
                 /\ Stored(call[t].key))
                => /\ call[t].key \in DOMAIN cache'
                   /\ cache'[call[t].key] = FromRow(tokenDb[call[t].key])]_vars

\* the task is inside a call of the manager
InCall(t) == pc[t] \notin {"idle", "done"}

\* the task waits at async with self._lock for the lock it holds
WaitsForOwnLock(t) == pc[t] \in AcquirePoints /\ lock = t

Quiescent == \A t \in Tasks : ~InCall(t)

\* C30: whenever no call is in progress, every pair with a cache entry has
\* a tokens row with the same access token, refresh token and expiry
C30_CacheCoherent ==
    Quiescent =>
        \A k \in DOMAIN cache :
            /\ Stored(k)
            /\ tokenDb[k] = Row(cache[k])

(***************************************************************************)
(* TokenData.is_expired on its own                                         *)
(***************************************************************************)
MaxClock == 3

\* expires_at as an offset from now, in seconds
ExpiryOffsets == {-1, 0, 60, 299, 300, 301, 3600}

BufferValues == {0, 60, DefaultBufferSeconds}

\* a TokenData and a buffer for one is_expired call
InitExpiry ==
    /\ now \in 0..MaxClock
    /\ \E exp \in {<<>>} \cup { <<now + d>> : d \in ExpiryOffsets },
          b \in BufferValues :
         call = [t \in Tasks |->
                   [op |-> IF t = "t1" THEN "is_expired" ELSE "none",
                    key |-> <<"", "">>, auto |-> FALSE, refresh |-> "none",
                    tok |-> [id |-> 1, rt |-> FALSE, exp |-> exp, meta |-> FALSE],
                    buffer_seconds |-> b]]
    /\ lock = "none"
    /\ cache = <<>>
    /\ tokenDb = <<>>
    /\ userRows = {}
    /\ pc = [t \in Tasks |-> "idle"]
    /\ loaded = [t \in Tasks |-> NoTok]
    /\ refreshed = [t \in Tasks |-> NoTok]
    /\ ret = [t \in Tasks |-> NoRet]
    /\ minted = 1
    /\ inflight = {}
    /\ stable = <<>>
    /\ dbHandle = "unset"
    /\ users = {}
    /\ transactions = <<>>
    /\ products = {}
    /\ campaigns = {}
    /\ feed = <<>>
    /\ plan = <<"ok", "ok">>
    /\ dbUp = TRUE
    /\ mockAvailable = TRUE
    /\ connected = {}
    /\ last = NoLast
    /\ rates = DEFAULT_EXCHANGE_RATES
    /\ budget = 0

\* token_data.is_expired(buffer_seconds) is called
CallIsExpired(t) ==
    /\ pc[t] = "idle"
    /\ call[t].op = "is_expired"
    /\ pc' = [pc EXCEPT ![t] = "done"]
    /\ ret' = [ret EXCEPT ![t] =
                 [NoRet EXCEPT !.kind = "bool",
                               !.flag = IsExpired(call[t].tok,
                                                  call[t].buffer_seconds)]]
    /\ UNCHANGED <<lock, cache, tokenDb, userRows, now, call, loaded, refreshed,
                   minted, inflight, stable, dbHandle, syncVars>>

NextExpiry == \E t \in Tasks : CallIsExpired(t)

SpecExpiry == InitExpiry /\ [][NextExpiry]_vars

\* C19: is_expired(buffer) is true exactly when expires_at is present and
\* now >= expires_at - buffer; with the buffer of 300 s a credential that
\* expires 60 s from now is expired and one that expires 3600 s from now is
\* not
C19_ExpiryBuffer ==
    \A t \in Tasks :
        (pc[t] = "done" /\ call[t].op = "is_expired") =>
            LET exp == call[t].tok.exp
                b == call[t].buffer_seconds
            IN  /\ exp = <<>> => ~ret[t].flag
                /\ exp # <<>> => (ret[t].flag <=> now >= exp[1] - b)
                /\ (b = 300 /\ exp = <<now + 60>>) => ret[t].flag
                /\ (b = 300 /\ exp = <<now + 3600>>) => ~ret[t].flag

\* is_expired with the default buffer was asked about a credential that
\* expires 60 s from now
C19_Witness ==
    \E t \in Tasks :
        /\ pc[t] = "done" /\ call[t].op = "is_expired"
        /\ call[t].buffer_seconds = DefaultBufferSeconds
        /\ call[t].tok.exp = <<now + 60>>
        /\ ret[t].flag

(***************************************************************************)
(* Concurrent sync_platform runs (services/data_sync.py)                   *)
(***************************************************************************)
\* two sync_platform(user, "shopify") runs that fetched the same orders, each
\* about to process its first order
InitConcurrent ==
    /\ feed \in SeqsUpTo(RawRecords, MaxRecords)
    /\ plan = <<"ok", "ok">>
    /\ dbUp = TRUE
    /\ mockAvailable = TRUE
    /\ users = {"u1"}
    /\ connected = {<<"u1", "shopify">>}
    /\ transactions = <<>>
    /\ products = {}
    /\ campaigns = {}
    /\ last = NoLast
    /\ rates = DEFAULT_EXCHANGE_RATES
    /\ budget = 0
    /\ pc = [r \in Tasks |-> 1]
    /\ ret = [r \in Tasks |-> NewResult("shopify")]
    /\ lock = "none"
    /\ cache = <<>>
    /\ tokenDb = <<>>
    /\ userRows = {}
    /\ now = 0
    /\ call = <<>>
    /\ loaded = <<>>
    /\ refreshed = <<>>
    /\ minted = 0
    /\ inflight = {}
    /\ stable = <<>>
    /\ dbHandle = "unset"

\* one turn of the loop over the fetched orders in run r: normalize the
\* order, await self._insert_transaction, count it or record the error
SyncOrderStep(r) ==
    /\ pc[r] <= Len(feed)
    /\ LET acc == ProcessOrders(<<feed[pc[r]]>>, "u1",
                                Run(ret[r], Tables, 0, <<>>, TRUE))
       IN  /\ transactions' = acc.st.transactions
           /\ ret' = [ret EXCEPT ![r] = acc.res]
    /\ pc' = [pc EXCEPT ![r] = @ + 1]
    /\ UNCHANGED <<feed, plan, dbUp, mockAvailable, connected, users, products,
                   campaigns, last, budget, rates, lock, cache, tokenDb, userRows,
                   now, call, loaded, refreshed, minted, inflight, stable,
                   dbHandle>>

NextConcurrent == \E r \in Tasks : SyncOrderStep(r)

SpecConcurrent == InitConcurrent /\ [][NextConcurrent]_vars

\* no two rows have the same (user, platform, platformId)
UniqueKeys(rows) ==
    \A i \in DOMAIN rows, j \in DOMAIN rows :
        TransactionKey(rows[i]) = TransactionKey(rows[j]) => i = j

MaxBatch == 3

\* Python values of the raw records: a str, the int 0, None; Absent stands
\* for a key the dict does not have
PyStr(x) == [py |-> "str", s |-> x]
PyZero == [py |-> "int", s |-> "0"]
PyNone == [py |-> "none", s |-> "None"]
Absent == [py |-> "absent", s |-> ""]

\* bool(v)
Truthy(v) == \/ v.py = "str" /\ v.s # ""
             \/ v.py = "int" /\ v.s # "0"

\* key in data
Has(v) == v # Absent

\* data.get(key, default), and data.get(key)
GetOr(v, default) == IF Has(v) THEN v ELSE default
Get(v) == GetOr(v, PyNone)

\* a or b
Or(a, b) == IF Truthy(a) THEN a ELSE b

\* Decimal(str(v)): the numeric literals that occur, InvalidOperation on
\* anything else
DecimalOf(v) ==
    CASE v.s = "0" -> Value(Dec(0, 0))
      [] v.s = "49.99" -> Value(Dec(4999, -2))
      [] v.s = "-20.00" -> Value(Dec(-2000, -2))
      [] v.s = "5.00" -> Value(Dec(500, -2))
      [] v.s = "150.50" -> Value(Dec(15050, -2))
      [] v.s = "2.50" -> Value(Dec(250, -2))
      [] v.s = "1500000" -> Value(Dec(1500000, 0))
      [] OTHER -> ValueError

\* d / Decimal("1000000")
DivMicros(d) == Dec(d.coef, d.exp - 6)

\* a raw record: id, total_price, amount, financial_status, kind, currency
\* (Shopify, Meta), spend (Meta), cost_micros, cost, currency_code (Google)
RawRecord(id, tp, am, fs, kd, cu, sp, cm, co, cc) ==
    [id |-> id, total_price |-> tp, amount |-> am, financial_status |-> fs,
     kind |-> kd, currency |-> cu, spend |-> sp, cost_micros |-> cm,
     cost |-> co, currency_code |-> cc]

CurrencyValues == {Absent, PyStr("USD"), PyStr("EUR"), PyStr("XYZ")}

\* Shopify orders and refunds
ShopifyRecords ==
    { RawRecord(PyStr("r1"), tp, am, fs, kd, cu, Absent, Absent, Absent, Absent) :
        tp \in {Absent, PyStr("49.99"), PyStr("-20.00"), PyStr("abc")},
        am \in {Absent, PyStr("5.00")},
        fs \in {Absent, PyStr("paid"), PyStr("refunded")},
        kd \in {Absent, PyStr("refund")},
        cu \in CurrencyValues }

\* Meta campaign insights
MetaRecords ==
    { RawRecord(PyStr("c1"), Absent, am, Absent, Absent, cu, sp, Absent, Absent,
                Absent) :
        sp \in {Absent, PyStr("150.50"), PyZero, PyStr("abc")},
        am \in {Absent, PyStr("5.00")},
        cu \in CurrencyValues }

\* Google campaign rows
GoogleRecords ==
    { RawRecord(PyStr("c1"), Absent, Absent, Absent, Absent, Absent, Absent, cm,
                co, cc) :
        cm \in {Absent, PyNone, PyZero, PyStr("0"), PyStr("1500000")},
        co \in {Absent, PyZero, PyStr("2.50")},
        cc \in CurrencyValues }

NoTransaction ==
    [raised |-> TRUE, platform |-> "", platform_id |-> "", type |-> "",
     amount |-> NoDec, currency |-> "", amount_usd |-> <<>>]

\* NormalizedTransaction(...) followed by __post_init__: amount_usd is set
\* to the amount when the currency is USD and stays None otherwise
NormalizedTransaction(platform, platform_id, type, amount, currency) ==
    [raised |-> FALSE, platform |-> platform, platform_id |-> platform_id,
     type |-> type, amount |-> amount, currency |-> currency,
     amount_usd |-> IF Upper(currency) = "USD" THEN <<amount>> ELSE <<>>]

ShopifyNormalize(data) ==
    LET financial_status == GetOr(data.financial_status, PyStr("paid"))
        is_refund == \/ financial_status = PyStr("refunded")
                     \/ Get(data.kind) = PyStr("refund")
        amount_str == Or(Or(Get(data.total_price), Get(data.amount)), PyStr("0"))
        parsed == DecimalOf(amount_str)
        amount == IF is_refund /\ DecNegative(parsed.value)
                  THEN Dec(Abs(parsed.value.coef), parsed.value.exp)
                  ELSE parsed.value
    IN  IF parsed.raised THEN NoTransaction
        ELSE NormalizedTransaction("shopify", GetOr(data.id, PyStr("")).s,
                                   IF is_refund THEN "refund" ELSE "order",
                                   amount,
                                   GetOr(data.currency, PyStr("USD")).s)

MetaNormalize(data) ==
    LET spend_str == Or(Or(Get(data.spend), Get(data.amount)), PyStr("0"))
        parsed == DecimalOf(spend_str)
    IN  IF parsed.raised THEN NoTransaction
        ELSE NormalizedTransaction("meta", GetOr(data.id, PyStr("")).s,
                                   "ad_spend", parsed.value,
                                   GetOr(data.currency, PyStr("USD")).s)

GoogleNormalize(data) ==
    LET cost_micros == Or(Or(Get(data.cost_micros), Get(data.cost)), PyStr("0"))
        parsed == DecimalOf(cost_micros)
        amount == IF Has(data.cost_micros)
                  THEN DivMicros(parsed.value)
                  ELSE parsed.value
    IN  IF parsed.raised THEN NoTransaction
        ELSE NormalizedTransaction("google", GetOr(data.id, PyStr("")).s,
                                   "ad_spend", amount,
                                   GetOr(data.currency_code, PyStr("USD")).s)

\* normalize_transaction(platform, data)
NormalizeTransaction(platform, data) ==
    CASE platform = "shopify" -> ShopifyNormalize(data)
      [] platform = "meta" -> MetaNormalize(data)
      [] platform = "google" -> GoogleNormalize(data)

\* Normalizer.normalize_batch: the list comprehension ends at the first
\* record whose normalize raises, and no list is returned
NormalizeBatch(platform, records) ==
    IF \E i \in DOMAIN records : NormalizeTransaction(platform, records[i]).raised
    THEN [raised |-> TRUE, list |-> <<>>]
    ELSE [raised |-> FALSE,
          list |-> [i \in DOMAIN records |->
                      NormalizeTransaction(platform, records[i])]]

\* the records of the batches: a paid order, an order whose total is not a
\* number, a refund
BatchRecords ==
    { RawRecord(PyStr("r1"), PyStr("49.99"), Absent, PyStr("paid"), Absent,
                PyStr("USD"), Absent, Absent, Absent, Absent),
      RawRecord(PyStr("r2"), PyStr("abc"), Absent, PyStr("paid"), Absent,
                PyStr("USD"), Absent, Absent, Absent, Absent),
      RawRecord(PyStr("r3"), PyStr("-20.00"), Absent, PyStr("refunded"), Absent,
                PyStr("USD"), Absent, Absent, Absent, Absent) }

NormalizeCalls ==
    { [op |-> "normalize", platform |-> "shopify", records |-> <<d>>] :
        d \in ShopifyRecords }
    \cup { [op |-> "normalize", platform |-> "meta", records |-> <<d>>] :
             d \in MetaRecords }
    \cup { [op |-> "normalize", platform |-> "google", records |-> <<d>>] :
             d \in GoogleRecords }

BatchCalls ==
    { [op |-> "normalize_batch", platform |-> "shopify", records |-> b] :
        b \in SeqsUpTo(BatchRecords, MaxBatch) }

\* one call of normalize or of normalize_batch, about to be made
InitNormalize ==
    /\ call \in NormalizeCalls \cup BatchCalls
    /\ pc = "idle"
    /\ ret = <<>>
    /\ rates = DEFAULT_EXCHANGE_RATES
    /\ lock = "none"
    /\ cache = <<>>
    /\ tokenDb = <<>>
    /\ userRows = {}
    /\ now = 0
    /\ loaded = <<>>
    /\ refreshed = <<>>
    /\ minted = 0
    /\ inflight = {}
    /\ stable = <<>>
    /\ dbHandle = "unset"
    /\ users = {}
    /\ transactions = <<>>
    /\ products = {}
    /\ campaigns = {}
    /\ feed = <<>>
    /\ plan = <<"ok", "ok">>
    /\ dbUp = TRUE
    /\ mockAvailable = TRUE
    /\ connected = {}
    /\ last = NoLast
    /\ budget = 0

\* get_normalizer(platform).normalize(data)
CallNormalize ==
    /\ pc = "idle"
    /\ call.op = "normalize"
    /\ ret' = NormalizeTransaction(call.platform, call.records[1])
    /\ pc' = "done"
    /\ UNCHANGED <<call, lock, cache, tokenDb, userRows, now, loaded, refreshed,
                   minted, inflight, stable, dbHandle, syncVars>>

\* get_normalizer(platform).normalize_batch(records)
CallNormalizeBatch ==
    /\ pc = "idle"
    /\ call.op = "normalize_batch"
    /\ ret' = NormalizeBatch(call.platform, call.records)
    /\ pc' = "done"
    /\ UNCHANGED <<call, lock, cache, tokenDb, userRows, now, loaded, refreshed,
                   minted, inflight, stable, dbHandle, syncVars>>

NextNormalize == CallNormalize \/ CallNormalizeBatch

SpecNormalize == InitNormalize /\ [][NextNormalize]_vars

\* the currency of a raw record as the platform's normalizer reads it
RecordCurrency(platform, data) ==
    GetOr(IF platform = "google" THEN data.currency_code ELSE data.currency,
          PyStr("USD")).s

\* C21: a transaction returned by a normalizer has amount_usd set, to the
\* amount for a USD record and to the converter's result for another
\* supported currency; for a currency the converter does not know the
\* normalizer raises
C21_AmountUsdPopulated ==
    (pc = "done" /\ call.op = "normalize") =>
        LET converted == ConvertToUsd(rates, ret.amount, ret.currency)
        IN  /\ ~ret.raised =>
                 /\ ret.amount_usd # <<>>
                 /\ IF Upper(ret.currency) = "USD"
                    THEN DecEq(ret.amount_usd[1], ret.amount)
                    ELSE ~converted.raised
                         /\ DecEq(ret.amount_usd[1], converted.value)
            /\ RecordCurrency(call.platform, call.records[1]) \notin DOMAIN rates
                 => ret.raised

\* the order total of a commerce record
OrderTotal(data) ==
    DecimalOf(Or(Or(Get(data.total_price), Get(data.amount)), PyStr("0"))).value

\* the record's financial status says it was refunded
StatusIsRefund(data) ==
    GetOr(data.financial_status, PyStr("paid")) = PyStr("refunded")

\* C22: a commerce record with a refunded financial status normalizes to
\* type refund with the absolute value of the order total as its amount,
\* every other commerce record normalizes to type order, and no transaction
\* returned by the commerce normalizer has a negative amount
C22_RefundNormalization ==
    (pc = "done" /\ call.op = "normalize" /\ call.platform = "shopify"
       /\ ~ret.raised) =>
        LET data == call.records[1]
            total == OrderTotal(data)
        IN  /\ StatusIsRefund(data) =>
                 /\ ret.type = "refund"
                 /\ DecEq(ret.amount, Dec(Abs(total.coef), total.exp))
            /\ ~StatusIsRefund(data) => ret.type = "order"
            /\ ~DecNegative(ret.amount)

\* C23: the amount of a Google transaction is cost_micros / 1,000,000 when
\* the record gives its cost in cost_micros (1500000 gives 1.50) and the
\* plain cost, unscaled, when it gives its cost in the cost field; a value
\* taken from the cost field is never divided by 1,000,000, whichever of
\* the two fields are present, absent or zero
C23_MicrosScaling ==
    (pc = "done" /\ call.op = "normalize" /\ call.platform = "google"
       /\ ~ret.raised) =>
        LET data == call.records[1]
        IN  /\ Truthy(Get(data.cost_micros)) =>
                 DecEq(ret.amount, DivMicros(DecimalOf(data.cost_micros).value))
            /\ (~Truthy(Get(data.cost_micros)) /\ Truthy(Get(data.cost))) =>
                 DecEq(ret.amount, DecimalOf(data.cost).value)
            /\ data.cost_micros = PyStr("1500000") =>
                 DecEq(ret.amount, Dec(150, -2))

\* C25: normalize_batch returns normally, and every record of the list that
\* normalizes on its own has its transaction in the returned list, also
\* when other records of the list fail
C25_BatchDoesNotAbort ==
    (pc = "done" /\ call.op = "normalize_batch") =>
        /\ ~ret.raised
        /\ \A i \in DOMAIN call.records :
             LET tx == NormalizeTransaction(call.platform, call.records[i])
             IN  ~tx.raised => \E j \in DOMAIN ret.list : ret.list[j] = tx

(***************************************************************************)
(* The currency converter on its own (normalization/currency.py)           *)
(***************************************************************************)
MaxConvertCalls == 3

\* amounts handed to convert_to_usd: 100.00, 49.99, -20.00, 0.005, -0.005,
\* 0.25, 1, 0
ConvertAmounts ==
    { Dec(10000, -2), Dec(4999, -2), Dec(-2000, -2), Dec(5, -3), Dec(-5, -3),
      Dec(25, -2), Dec(1, 0), Dec(0, 0) }

\* rates handed to set_rate: 1.10, 0
NewRates == { Dec(110, -2), Dec(0, 0) }

NoConvert ==
    [op |-> "none", amount |-> NoDec, currency |-> "", table |-> <<>>,
     raised |-> FALSE, value |-> NoDec]

\* a converter built with the default rates
InitCurrency ==
    /\ rates = DEFAULT_EXCHANGE_RATES
    /\ ret = NoConvert
    /\ budget = MaxConvertCalls
    /\ call = <<>>
    /\ pc = <<>>
    /\ lock = "none"
    /\ cache = <<>>
    /\ tokenDb = <<>>
    /\ userRows = {}
    /\ now = 0
    /\ loaded = <<>>
    /\ refreshed = <<>>
    /\ minted = 0
    /\ inflight = {}
    /\ stable = <<>>
    /\ dbHandle = "unset"
    /\ users = {}
    /\ transactions = <<>>
    /\ products = {}
    /\ campaigns = {}
    /\ feed = <<>>
    /\ plan = <<"ok", "ok">>
    /\ dbUp = TRUE
    /\ mockAvailable = TRUE
    /\ connected = {}
    /\ last = NoLast

\* converter.convert_to_usd(amount, currency)
CallConvertToUsd ==
    /\ budget > 0
    /\ \E amount \in ConvertAmounts, currency \in CurrencyCodes :
         LET out == ConvertToUsd(rates, amount, currency)
         IN  ret' = [op |-> "convert_to_usd", amount |-> amount,
                     currency |-> currency, table |-> rates,
                     raised |-> out.raised, value |-> out.value]
    /\ budget' = budget - 1
    /\ UNCHANGED <<rates, call, pc, lock, cache, tokenDb, userRows, now, loaded,
                   refreshed, minted, inflight, stable, dbHandle, feed, plan,
                   dbUp, mockAvailable, connected, users, transactions,
                   products, campaigns, last>>

\* converter.set_rate(currency, rate): ValueError on a rate that is not
\* positive
CallSetRate ==
    /\ budget > 0
    /\ \E currency \in {"eur", "XYZ"}, rate \in NewRates :
         /\ rates' = IF rate.coef <= 0 THEN rates
                     ELSE [c \in DOMAIN rates \cup {Upper(currency)} |->
                             IF c = Upper(currency) THEN rate ELSE rates[c]]
         /\ ret' = [NoConvert EXCEPT !.op = "set_rate", !.currency = currency,
                                     !.raised = rate.coef <= 0]
    /\ budget' = budget - 1
    /\ UNCHANGED <<call, pc, lock, cache, tokenDb, userRows, now, loaded,
                   refreshed, minted, inflight, stable, dbHandle, feed, plan,
                   dbUp, mockAvailable, connected, users, transactions,
                   products, campaigns, last>>

NextCurrency == CallConvertToUsd \/ CallSetRate

SpecCurrency == InitCurrency /\ [][NextCurrency]_vars

\* r is x rounded half-up to the cent: r has two places, lies within half a
\* cent of x, and on a tie is the one further from zero
RoundedHalfUpToCents(r, x) ==
    LET m == Min(x.exp, -2)
        X == x.coef * Pow10(x.exp - m)
        R == r.coef * Pow10(-2 - m)
        cent == Pow10(-2 - m)
    IN  /\ r.exp = -2
        /\ \/ 2 * Abs(R - X) < cent
           \/ 2 * Abs(R - X) = cent /\ Abs(R) > Abs(X)

\* C24: convert_to_usd returns the amount rounded half-up to the cent for
\* USD and amount * rate rounded half-up to the cent for a registered
\* currency (100.00 EUR at 1.08 gives 108.00), returns what the previous
\* call returned when it is repeated with the same arguments and rates, and
\* for an unregistered code raises; no call changes the rate table
C24_ConversionExact ==
    [][(ret'.op = "convert_to_usd" /\ budget' < budget) =>
          LET c == Upper(ret'.currency)
          IN  /\ rates' = rates
              /\ c = "USD" =>
                   ~ret'.raised /\ RoundedHalfUpToCents(ret'.value, ret'.amount)
              /\ (c # "USD" /\ c \in DOMAIN rates) =>
                   /\ ~ret'.raised
                   /\ RoundedHalfUpToCents(ret'.value,
                                           DecMul(ret'.amount, rates[c]))
              /\ (c = "EUR" /\ rates[c] = Dec(108, -2)
                    /\ ret'.amount = Dec(10000, -2)) =>
                   ret'.value = Dec(10800, -2)
              /\ (c # "USD" /\ c \notin DOMAIN rates) => ret'.raised
              /\ (/\ ret.op = "convert_to_usd"
                  /\ ret.amount = ret'.amount
                  /\ ret.currency = ret'.currency
                  /\ ret.table = ret'.table) =>
                   (ret'.raised = ret.raised /\ ret'.value = ret.value)]_vars

\* the last of the calls converted 100.00 EUR at the default rate of 1.08
\* and returned 108.00
C24_Witness ==
    /\ ret.op = "convert_to_usd"
    /\ budget = 0
    /\ ret.currency = "EUR" /\ ret.amount = Dec(10000, -2)
    /\ ret.table = DEFAULT_EXCHANGE_RATES
    /\ ret.value = Dec(10800, -2)

(***************************************************************************)
(* Fetch attempts and per-record writes of the platform syncs              *)
(* (services/data_sync.py, tools/mcp_router.py)                            *)
(***************************************************************************)
\* C27: when the report of a platform sync holds a failed fetch, that fetch
\* was attempted more than once
C27_FetchRetried ==
    last.op = "platform" =>
        /\ <<"Failed to fetch orders">> \in Range(last.report.errors)
             => last.attempts[1] > 1
        /\ <<"Failed to fetch products">> \in Range(last.report.errors)
             => last.attempts[2] > 1
        /\ <<"Failed to fetch ad accounts">> \in Range(last.report.errors)
             => last.attempts[1] > 1

\* C28: in every report of an ad-platform sync campaigns_synced equals
\* transactions_synced, and every campaign row of the platform has its
\* transaction row
C28_NoPartialWrite ==
    (last.op = "platform" /\ last.platform \in AdPlatforms) =>
        /\ last.report.campaigns_synced = last.report.transactions_synced
        /\ \A c \in campaigns :
             c[2] = last.platform =>
                 \E i \in DOMAIN transactions : TransactionKey(transactions[i]) = c

====
